---- MODULE Spec2Model ----
(***************************************************************************)
(* Model of api/phone.js: the phone-number normalizer, the namespace       *)
(* resolver and the GET / POST handler over a Redis get/set store.         *)
(*                                                                         *)
(* Strings are sequences of characters, so that cleaning, prefix tests,    *)
(* substring, padding, parseInt and toString are computed as the           *)
(* JavaScript computes them.  An ASCII character is the one-character      *)
(* string of it; any other character is the string "U+" followed by the    *)
(* four hexadecimal digits of its code unit, as in "U+00A0" or "U+00F1".   *)
(* A value that may be null/undefined (a Redis reply, a missing body       *)
(* field, a response field) is <<>> when absent and <<v>> when present.    *)
(***************************************************************************)
EXTENDS Integers, Sequences, FiniteSets

\* ------------------------------------------------------------------ bounds

\* Number of requests one behaviour of Spec handles (they may all overlap).
MaxReqs == 3
\* Number of requests one behaviour of SpecFew handles.
MaxFew == 2
\* Longest noise/prefix part of a generated normalizer input.
MaxPre == 3
\* Longest run of trailing digits of a generated normalizer input.
MaxTail == 12
MaxNsLen == 3

\* ----------------------------------------------------------------- strings

Digits == {"0", "1", "2", "3", "4", "5", "6", "7", "8", "9"}

\* The white space and line terminator characters, which are what \s matches
\* and what trim() removes: TAB, LF, VT, FF, CR, SP, U+00A0, U+1680,
\* U+2000 to U+200A, U+2028, U+2029, U+202F, U+205F, U+3000 and U+FEFF.
Whitespace ==
  {" ", "\t", "\n", "\r", "\f", "",
   "U+00A0", "U+1680", "U+2000", "U+2001", "U+2002", "U+2003", "U+2004",
   "U+2005", "U+2006", "U+2007", "U+2008", "U+2009", "U+200A", "U+2028",
   "U+2029", "U+202F", "U+205F", "U+3000", "U+FEFF"}

\* The characters /[\s\-\(\)\+]/ removes.
CleanChars == Whitespace \cup {"-", "(", ")", "+"}

Null == <<>>
Some(v) == <<v>>
IsNull(o) == o = <<>>
Val(o) == o[1]

\* s.startsWith(p)
StartsWith(s, p) == Len(s) >= Len(p) /\ SubSeq(s, 1, Len(p)) = p

\* s.substring(from), 0-based
Substring(s, from) == SubSeq(s, from + 1, Len(s))

\* s.substring(from, to), 0-based, to exclusive
Substring2(s, from, to) == SubSeq(s, from + 1, to)

RECURSIVE Repeat(_, _)
Repeat(c, n) == IF n <= 0 THEN <<>> ELSE <<c>> \o Repeat(c, n - 1)

\* s.padStart(n, c)
PadStart(s, n, c) == Repeat(c, n - Len(s)) \o s

DigitValue(c) ==
  CASE c = "0" -> 0 [] c = "1" -> 1 [] c = "2" -> 2 [] c = "3" -> 3
    [] c = "4" -> 4 [] c = "5" -> 5 [] c = "6" -> 6 [] c = "7" -> 7
    [] c = "8" -> 8 [] c = "9" -> 9

DigitChar(d) ==
  CASE d = 0 -> "0" [] d = 1 -> "1" [] d = 2 -> "2" [] d = 3 -> "3"
    [] d = 4 -> "4" [] d = 5 -> "5" [] d = 6 -> "6" [] d = 7 -> "7"
    [] d = 8 -> "8" [] d = 9 -> "9"

\* The longest prefix of s made of decimal digits.
RECURSIVE DigitPrefix(_)
DigitPrefix(s) ==
  IF s = <<>> \/ Head(s) \notin Digits THEN <<>>
  ELSE <<Head(s)>> \o DigitPrefix(Tail(s))

RECURSIVE DigitsValue(_)
DigitsValue(s) ==
  IF s = <<>> THEN 0
  ELSE 10 * DigitsValue(SubSeq(s, 1, Len(s) - 1)) + DigitValue(s[Len(s)])

\* parseInt(s, 10) of a string that starts with a digit: the value of its
\* leading run of digits.  (Every counter string the handler stores is such
\* a string; NaN, the result for any other string, is not reached.)
ParseInt(s) == DigitsValue(DigitPrefix(s))

\* n.toString() of a natural number
RECURSIVE ToString(_)
ToString(n) ==
  IF n < 10 THEN <<DigitChar(n)>>
  ELSE ToString(n \div 10) \o <<DigitChar(n % 10)>>

\* -------------------------------------------------------------- normalizer

countryCode == <<"5", "4">>
mobilePrefix == <<"9">>
defaultAreaCode == <<"1", "1">>

IsCleanChar(c) == c \in CleanChars
IsDigit(c) == c \in Digits
NotCleanChar(c) == ~IsCleanChar(c)

\* phoneNumber.toString().replace(/[\s\-\(\)\+]/g, '').replace(/\D/g, '')
Cleaned(phoneNumber) == SelectSeq(SelectSeq(phoneNumber, NotCleanChar), IsDigit)

StripCountryCodeNoFive(digits) ==
  IF StartsWith(digits, <<"5", "4">>) THEN Substring(digits, 2)
  ELSE Substring(countryCode \o digits, 2)

\* Paso 1: the digits that follow the country code.
StripCountryCode(digits) ==
  IF StartsWith(digits, <<"5", "4">>) THEN Substring(digits, 2)
  ELSE IF StartsWith(digits, <<"5">>)
       THEN Substring(<<"5", "4">> \o Substring(digits, 1), 2)
       ELSE Substring(countryCode \o digits, 2)

StripMobilePrefixKeep(digits) == digits

\* Paso 2: the digits that follow the mobile prefix.
StripMobilePrefix(digits) ==
  IF StartsWith(digits, <<"9">>) THEN Substring(digits, 1)
  ELSE Substring(mobilePrefix \o digits, 1)

AreaCodeAlwaysDefault(digits) == defaultAreaCode

AreaCodeOf(digits) ==
  IF Len(digits) >= 10 THEN Substring2(digits, 0, 2)
  ELSE IF Len(digits) >= 6 /\ Len(digits) < 10 THEN defaultAreaCode
  ELSE defaultAreaCode

LocalNumberOf(digits) ==
  IF Len(digits) >= 10 THEN Substring(digits, 2)
  ELSE IF Len(digits) >= 6 /\ Len(digits) < 10 THEN digits
  ELSE digits

FitLocalUnpadded(localNumber) ==
  IF Len(localNumber) > 8 THEN Substring(localNumber, Len(localNumber) - 8)
  ELSE localNumber

\* The local number brought to exactly 8 digits.
FitLocal(localNumber) ==
  IF Len(localNumber) > 8 THEN Substring(localNumber, Len(localNumber) - 8)
  ELSE IF Len(localNumber) < 8 THEN PadStart(localNumber, 8, "0")
  ELSE localNumber

normalizePhoneNumber(phoneNumber) ==
  IF phoneNumber = <<>> THEN <<>>
  ELSE LET cleaned == Cleaned(phoneNumber) IN
    IF cleaned = <<>> THEN <<>>
    ELSE LET digits == StripMobilePrefix(StripCountryCode(cleaned))
             areaCode == AreaCodeOf(digits)
             localNumber == FitLocal(LocalNumberOf(digits))
         IN countryCode \o mobilePrefix \o areaCode \o localNumber

\* ------------------------------------------------------ namespace resolver

RECURSIVE TrimStart(_)
TrimStart(s) ==
  IF s # <<>> /\ Head(s) \in Whitespace THEN TrimStart(Tail(s)) ELSE s

RECURSIVE TrimEnd(_)
TrimEnd(s) ==
  IF s # <<>> /\ s[Len(s)] \in Whitespace
  THEN TrimEnd(SubSeq(s, 1, Len(s) - 1)) ELSE s

\* s.trim()
Trim(s) == TrimEnd(TrimStart(s))

\* o || '' of an optional string
OrEmpty(o) == IF IsNull(o) THEN <<>> ELSE Val(o)

getRedisNamespaceUntrimmed(envNamespace, host) ==
  LET ns == OrEmpty(envNamespace) IN
  IF ns # <<>> THEN ns
  ELSE LET h == OrEmpty(host) IN
    IF h # <<>> THEN <<"h", "o", "s", "t", ":">> \o h
    ELSE <<"d", "e", "f", "a", "u", "l", "t">>

\* envNamespace is process.env.REDIS_NAMESPACE, host is req.headers.host
\* (each <<>> when unset, <<s>> when set).
getRedisNamespace(envNamespace, host) ==
  LET ns == Trim(OrEmpty(envNamespace)) IN
  IF ns # <<>> THEN ns
  ELSE LET h == Trim(OrEmpty(host)) IN
    IF h # <<>> THEN <<"h", "o", "s", "t", ":">> \o h
    ELSE <<"d", "e", "f", "a", "u", "l", "t">>

PhoneSuffix ==
  <<":", "p", "h", "o", "n", "e", "_", "n", "u", "m", "b", "e", "r">>
CountSuffix ==
  <<":", "c", "h", "a", "n", "g", "e", "_", "c", "o", "u", "n", "t">>

\* `${ns}:phone_number`
PhoneKey(ns) == ns \o PhoneSuffix
\* `${ns}:change_count`
CountKey(ns) == ns \o CountSuffix

\* ------------------------------------------------------------ environment

\* '5491157552283', the phone a GET answers when nothing else is set.
FallbackPhone ==
  <<"5", "4", "9", "1", "1", "5", "7", "5", "5", "2", "2", "8", "3">>

\* A PHONE_NUMBER setting.
EnvPhone ==
  <<"5", "4", "9", "1", "1", "2", "2", "2", "2", "3", "3", "3", "3">>

\* The process environments of the model: nothing set, and everything set.
Envs ==
  { [REDIS_NAMESPACE |-> Null, PHONE_NUMBER |-> Null, ADMIN_PASSWORD |-> ""],
    [REDIS_NAMESPACE |-> Some(<<" ", "p">>), PHONE_NUMBER |-> Some(EnvPhone),
     ADMIN_PASSWORD |-> "s3cret"] }

\* process.env.ADMIN_PASSWORD || 'admin123'
AdminPassword(e) ==
  IF e.ADMIN_PASSWORD # "" THEN e.ADMIN_PASSWORD ELSE "admin123"

PasswordOkAlways(e, password) == TRUE

\* !(password !== adminPassword)
PasswordOk(e, password) == password = AdminPassword(e)

\* process.env.PHONE_NUMBER || '5491157552283'
DefaultPhone(e) ==
  IF OrEmpty(e.PHONE_NUMBER) # <<>> THEN Val(e.PHONE_NUMBER) ELSE FallbackPhone

\* --------------------------------------------------------------- requests

HostA == Some(<<"a">>)
HostB == Some(<<"b">>)

PhoneA ==
  <<"+", "5", "4", " ", "1", "1", " ", "4", "3", "4", "4", " ",
    "3", "6", "0", "0">>
PhoneB == <<"1", "5", " ", "1", "2", "3", "4", " ", "5", "6", "7", "8">>

\* A password that is not the administrator's.
WrongPassword(e) == IF AdminPassword(e) = "admin123" THEN "s3cret" ELSE "admin123"

NoBody == Null
Body(phone, password, reset) ==
  Some([phone |-> phone, password |-> password, reset |-> reset])

Request(method, host, body) == [method |-> method, host |-> host, body |-> body]

\* The requests a process whose environment is e may receive.  body.reset is
\* "undefined" (missing), "true" (the boolean) or "'true'" (the string);
\* body.phone is missing, empty, without a digit, one digit or a full number.
RequestsOf(e) ==
  LET ok == AdminPassword(e)
      bad == WrongPassword(e)
  IN { Request("GET", HostA, NoBody), Request("GET", HostB, NoBody),
       Request("OPTIONS", Null, NoBody), Request("PUT", Null, NoBody),
       Request("POST", HostA, NoBody),
       Request("POST", HostA, Body(Some(PhoneA), bad, "true")),
       Request("POST", HostA, Body(Some(PhoneA), bad, "undefined")),
       Request("POST", HostA, Body(Null, ok, "true")),
       Request("POST", HostA, Body(Some(PhoneB), ok, "true")),
       Request("POST", HostB, Body(Null, ok, "true")),
       Request("POST", HostA, Body(Null, ok, "undefined")),
       Request("POST", HostA, Body(Some(<<>>), ok, "undefined")),
       Request("POST", HostA, Body(Some(<<"(", "x", ")">>), ok, "undefined")),
       Request("POST", HostA, Body(Some(<<"7">>), ok, "'true'")),
       Request("POST", HostA, Body(Some(PhoneA), ok, "undefined")),
       Request("POST", HostB, Body(Some(PhoneA), ok, "undefined")) }

AllRequests == UNION { RequestsOf(e) : e \in Envs }

Namespaces ==
  { getRedisNamespace(e.REDIS_NAMESPACE, q.host) : e \in Envs, q \in AllRequests }

Keys == { PhoneKey(n) : n \in Namespaces } \cup { CountKey(n) : n \in Namespaces }

\* ------------------------------------------------------------------ state

VARIABLES
  env,        \* process.env, fixed for the process
  redis,      \* whether the module-level redis handle is non-null
  store,      \* the Redis keyspace: key -> <<>> (no such key) or <<string>>
  reqs,       \* request number -> its handler invocation: its position (pc),
              \* the request, the handler's locals, the response, and as
              \* history the redis calls made (log), whether another request
              \* of the namespace was handled meanwhile (overlapped) and, for
              \* an update that reaches the store, the counter on arrival
              \* (before) and, for an update that succeeds, how many resets
              \* of its namespace had succeeded by then (resetsBefore)
  arrived,    \* how many requests have arrived
  phoneInput, \* normalizer run: the input
  normalized, \* normalizer run: <<>> or <<normalizePhoneNumber(phoneInput)>>
  renormalized, \* normalizer run: <<>> or <<the normalizer applied again>>
  nsEnv,      \* resolver run: process.env.REDIS_NAMESPACE
  nsHost,     \* resolver run: req.headers.host
  nsResult    \* resolver run: <<>> or <<getRedisNamespace(req)>>

vars == <<env, redis, store, reqs, arrived, phoneInput, normalized, renormalized,
          nsEnv, nsHost, nsResult>>
handlerVars == <<env, redis, store, reqs, arrived>>
normVars == <<phoneInput, normalized, renormalized>>
nsVars == <<nsEnv, nsHost, nsResult>>

ReqIds == 1 .. MaxReqs

IdleReq ==
  [pc |-> "idle", req |-> [method |-> "GET", host |-> Null, body |-> NoBody],
   phoneNumber |-> Null, changeCount |-> 0, normalizedPhone |-> <<>>,
   currentCount |-> Null, newCount |-> 0, res |-> Null, log |-> <<>>,
   overlapped |-> FALSE, before |-> 0, resetsBefore |-> 0]

InFlight(r) == reqs[r].pc \notin {"idle", "done"}
Done(r) == reqs[r].pc = "done"

NsOfIgnoringHost(q) == getRedisNamespace(env.REDIS_NAMESPACE, Null)

\* const ns = getRedisNamespace(req)
NsOf(q) == getRedisNamespace(env.REDIS_NAMESPACE, q.host)

\* res.status(s).json({...}) / .end(): the fields a response may carry.
Response(status, error, success, phone, changeCount, normalizedPhone) ==
  [status |-> status, error |-> error, success |-> success, phone |-> phone,
   changeCount |-> changeCount, normalizedPhone |-> normalizedPhone]

ErrorResponse(status, error) == Response(status, error, FALSE, Null, Null, Null)

\* One redis call, as the request's log keeps it.
Call(op, key, ok, old, new) ==
  [op |-> op, key |-> key, ok |-> ok, old |-> old, new |-> new]

\* await redis.get(key)
RedisGet(key) == store[key]
\* await redis.set(key, value)
RedisSet(key, value) == [store EXCEPT ![key] = Some(value)]


\* ---------------------------------------------------------------- handler

\* JavaScript truthiness of an optional string: neither null/undefined nor ''.
Truthy(o) == ~IsNull(o) /\ Val(o) # <<>>

ValidNormalizedAny(normalizedPhone) == TRUE
ValidNormalizedAtMost13(normalizedPhone) == Len(normalizedPhone) <= 13

\* !(normalizedPhone.length !== 13)
ValidNormalized(normalizedPhone) == Len(normalizedPhone) = 13

NewCountStuck(currentCount) == 1
NewCountPlusTwo(currentCount) ==
  IF Truthy(currentCount) THEN ParseInt(Val(currentCount)) + 2 ELSE 2

\* currentCount ? parseInt(currentCount, 10) + 1 : 1
NewCount(currentCount) ==
  IF Truthy(currentCount) THEN ParseInt(Val(currentCount)) + 1 ELSE 1

\* countStr ? parseInt(countStr, 10) : 0
ReadCount(countStr) ==
  IF Truthy(countStr) THEN ParseInt(Val(countStr)) ELSE 0

ResetValueOne == <<"1">>

\* The value a reset stores under change_count.
ResetValue == <<"0">>

GetResponseDefaultPhone(phoneNumber, changeCount) ==
  Response(200, "", FALSE, Some(DefaultPhone(env)), Some(changeCount), Null)

\* The GET response: phoneNumber || process.env.PHONE_NUMBER || default.
GetResponse(phoneNumber, changeCount) ==
  Response(200, "", FALSE,
           Some(IF Truthy(phoneNumber) THEN Val(phoneNumber) ELSE DefaultPhone(env)),
           Some(changeCount), Null)

ResetSuccess == Response(200, "", TRUE, Null, Some(0), Null)

UpdateSuccess(newCount, normalizedPhone) ==
  Response(200, "", TRUE, Null, Some(newCount), Some(normalizedPhone))

UpdateFailureSilent == Response(200, "", TRUE, Null, Null, Null)

\* The catch blocks of the reset and of the update.
ResetFailure == ErrorResponse(500, "ResetFailed")
UpdateFailure == ErrorResponse(500, "SaveFailed")
NotConfigured == ErrorResponse(500, "RedisNotConfigured")

Finish(h, response) == [h EXCEPT !.pc = "done", !.res = Some(response)]

\* The handler from its entry to its first await or to its response.
HandlerStart(q) ==
  LET h == [IdleReq EXCEPT !.req = q] IN
  IF q.method = "OPTIONS" THEN Finish(h, Response(200, "", FALSE, Null, Null, Null))
  ELSE IF q.method = "GET" THEN
    IF redis THEN [h EXCEPT !.pc = "GetPhone"]
    ELSE Finish(h, GetResponse(Null, 0))
  ELSE IF q.method = "POST" THEN
    IF IsNull(q.body) THEN Finish(h, ErrorResponse(500, "UpdateError"))
    ELSE LET b == Val(q.body) IN
      IF ~PasswordOk(env, b.password)
      THEN Finish(h, ErrorResponse(401, "BadCredential"))
      ELSE IF b.reset = "true" THEN
        IF redis THEN [h EXCEPT !.pc = "ResetSet"]
        ELSE Finish(h, NotConfigured)
      ELSE IF ~Truthy(b.phone)
      THEN Finish(h, ErrorResponse(400, "PhoneRequired"))
      ELSE LET n == normalizePhoneNumber(Val(b.phone)) IN
        IF ~ValidNormalized(n)
        THEN Finish([h EXCEPT !.normalizedPhone = n],
                    ErrorResponse(400, "InvalidPhone"))
        ELSE IF redis
        THEN [h EXCEPT !.pc = "SetPhone", !.normalizedPhone = n]
        ELSE Finish([h EXCEPT !.normalizedPhone = n], NotConfigured)
  ELSE Finish(h, ErrorResponse(405, "MethodNotAllowed"))

\* The stored counter of a namespace, an absent one counting as 0.
StoredCount(st, ns) == ReadCount(st[CountKey(ns)])

\* The resets of namespace ns that have answered success.
ResetsReturned(ns) ==
  Cardinality({ x \in ReqIds : /\ reqs[x].pc = "done"
                               /\ reqs[x].res = Some(ResetSuccess)
                               /\ NsOf(reqs[x].req) = ns })

\* Requests of the namespace of q that are being handled.
Concurrent(q) == { r \in ReqIds : InFlight(r) /\ NsOf(reqs[r].req) = NsOf(q) }

\* A request arrives, while fewer than max have, and its handler runs to its
\* first await.
Receive(q, max) ==
  /\ arrived < max
  /\ arrived' = arrived + 1
  /\ LET r == arrived + 1
         others == Concurrent(q)
     IN reqs' = [x \in ReqIds |->
                   IF x = r
                   THEN [HandlerStart(q) EXCEPT
                           !.overlapped = others # {},
                           !.before = IF HandlerStart(q).pc = "SetPhone"
                                      THEN StoredCount(store, NsOf(q)) ELSE 0]
                   ELSE IF x \in others THEN [reqs[x] EXCEPT !.overlapped = TRUE]
                   ELSE reqs[x]]
  /\ UNCHANGED <<env, redis, store, normVars, nsVars>>

Logged(h, call) == [h EXCEPT !.log = Append(h.log, call)]

\* GET: phoneNumber = await redis.get(`${ns}:phone_number`)
ReadGetPhone(r) ==
  /\ reqs[r].pc = "GetPhone"
  /\ LET key == PhoneKey(NsOf(reqs[r].req))
         v == RedisGet(key)
     IN reqs' = [reqs EXCEPT ![r] =
                   Logged([@ EXCEPT !.pc = "GetCount", !.phoneNumber = v],
                          Call("get", key, TRUE, v, v))]
  /\ UNCHANGED <<env, redis, store, arrived, normVars, nsVars>>

\* GET: the phone read throws; the catch logs and the response falls back.
ReadGetPhoneFail(r) ==
  /\ reqs[r].pc = "GetPhone"
  /\ LET key == PhoneKey(NsOf(reqs[r].req))
         h == Logged(reqs[r], Call("get", key, FALSE, Null, Null))
     IN reqs' = [reqs EXCEPT ![r] = Finish(h, GetResponse(h.phoneNumber, h.changeCount))]
  /\ UNCHANGED <<env, redis, store, arrived, normVars, nsVars>>

\* GET: countStr = await redis.get(`${ns}:change_count`), then the response.
ReadGetCount(r) ==
  /\ reqs[r].pc = "GetCount"
  /\ LET key == CountKey(NsOf(reqs[r].req))
         v == RedisGet(key)
         h == Logged([reqs[r] EXCEPT !.changeCount = ReadCount(v)],
                     Call("get", key, TRUE, v, v))
     IN reqs' = [reqs EXCEPT ![r] = Finish(h, GetResponse(h.phoneNumber, h.changeCount))]
  /\ UNCHANGED <<env, redis, store, arrived, normVars, nsVars>>

\* GET: the counter read throws.
ReadGetCountFail(r) ==
  /\ reqs[r].pc = "GetCount"
  /\ LET key == CountKey(NsOf(reqs[r].req))
         h == Logged(reqs[r], Call("get", key, FALSE, Null, Null))
     IN reqs' = [reqs EXCEPT ![r] = Finish(h, GetResponse(h.phoneNumber, h.changeCount))]
  /\ UNCHANGED <<env, redis, store, arrived, normVars, nsVars>>

\* POST reset: await redis.set(`${ns}:change_count`, '0'), then the response.
ResetSet(r) ==
  /\ reqs[r].pc = "ResetSet"
  /\ LET key == CountKey(NsOf(reqs[r].req))
         h == Logged(reqs[r], Call("set", key, TRUE, store[key], Some(ResetValue)))
     IN /\ store' = RedisSet(key, ResetValue)
        /\ reqs' = [reqs EXCEPT ![r] = Finish(h, ResetSuccess)]
  /\ UNCHANGED <<env, redis, arrived, normVars, nsVars>>

\* POST reset: the write throws.
ResetSetFail(r) ==
  /\ reqs[r].pc = "ResetSet"
  /\ LET key == CountKey(NsOf(reqs[r].req))
         h == Logged(reqs[r], Call("set", key, FALSE, Null, Null))
     IN reqs' = [reqs EXCEPT ![r] = Finish(h, ResetFailure)]
  /\ UNCHANGED <<env, redis, store, arrived, normVars, nsVars>>

\* POST update: await redis.set(`${ns}:phone_number`, normalizedPhone)
UpdateSetPhone(r) ==
  /\ reqs[r].pc = "SetPhone"
  /\ LET key == PhoneKey(NsOf(reqs[r].req))
         v == reqs[r].normalizedPhone
     IN /\ store' = RedisSet(key, v)
        /\ reqs' = [reqs EXCEPT ![r] =
                      Logged([@ EXCEPT !.pc = "UpdGetCount"],
                             Call("set", key, TRUE, store[key], Some(v)))]
  /\ UNCHANGED <<env, redis, arrived, normVars, nsVars>>

\* POST update: the phone write throws.
UpdateSetPhoneFail(r) ==
  /\ reqs[r].pc = "SetPhone"
  /\ LET key == PhoneKey(NsOf(reqs[r].req))
         h == Logged(reqs[r], Call("set", key, FALSE, Null, Null))
     IN reqs' = [reqs EXCEPT ![r] = Finish(h, UpdateFailure)]
  /\ UNCHANGED <<env, redis, store, arrived, normVars, nsVars>>

\* POST update: currentCount = await redis.get(`${ns}:change_count`), newCount
UpdateGetCount(r) ==
  /\ reqs[r].pc = "UpdGetCount"
  /\ LET key == CountKey(NsOf(reqs[r].req))
         v == RedisGet(key)
     IN reqs' = [reqs EXCEPT ![r] =
                   Logged([@ EXCEPT !.pc = "SetCount", !.currentCount = v,
                                    !.newCount = NewCount(v)],
                          Call("get", key, TRUE, v, v))]
  /\ UNCHANGED <<env, redis, store, arrived, normVars, nsVars>>

\* POST update: the counter read throws.
UpdateGetCountFail(r) ==
  /\ reqs[r].pc = "UpdGetCount"
  /\ LET key == CountKey(NsOf(reqs[r].req))
         h == Logged(reqs[r], Call("get", key, FALSE, Null, Null))
     IN reqs' = [reqs EXCEPT ![r] = Finish(h, UpdateFailure)]
  /\ UNCHANGED <<env, redis, store, arrived, normVars, nsVars>>

\* POST update: await redis.set(`${ns}:change_count`, newCount.toString()),
\* then the response.
UpdateSetCount(r) ==
  /\ reqs[r].pc = "SetCount"
  /\ LET key == CountKey(NsOf(reqs[r].req))
         v == ToString(reqs[r].newCount)
         h == Logged(reqs[r], Call("set", key, TRUE, store[key], Some(v)))
     IN /\ store' = RedisSet(key, v)
        /\ reqs' = [reqs EXCEPT ![r] =
                      [Finish(h, UpdateSuccess(h.newCount, h.normalizedPhone))
                         EXCEPT !.resetsBefore = ResetsReturned(NsOf(h.req))]]
  /\ UNCHANGED <<env, redis, arrived, normVars, nsVars>>

\* POST update: the counter write throws.
UpdateSetCountFail(r) ==
  /\ reqs[r].pc = "SetCount"
  /\ LET key == CountKey(NsOf(reqs[r].req))
         h == Logged(reqs[r], Call("set", key, FALSE, Null, Null))
     IN reqs' = [reqs EXCEPT ![r] = Finish(h, UpdateFailure)]
  /\ UNCHANGED <<env, redis, store, arrived, normVars, nsVars>>

Init ==
  /\ env \in Envs
  /\ redis \in BOOLEAN
  /\ store = [k \in Keys |-> Null]
  /\ reqs = [r \in ReqIds |-> IdleReq]
  /\ arrived = 0
  /\ phoneInput = <<>>
  /\ normalized = Null
  /\ renormalized = Null
  /\ nsEnv = Null /\ nsHost = Null /\ nsResult = Null

\* A redis call of a handler in progress returns or throws.
RedisStep ==
  \/ \E r \in ReqIds : ReadGetPhone(r)
  \/ \E r \in ReqIds : ReadGetPhoneFail(r)
  \/ \E r \in ReqIds : ReadGetCount(r)
  \/ \E r \in ReqIds : ReadGetCountFail(r)
  \/ \E r \in ReqIds : ResetSet(r)
  \/ \E r \in ReqIds : ResetSetFail(r)
  \/ \E r \in ReqIds : UpdateSetPhone(r)
  \/ \E r \in ReqIds : UpdateSetPhoneFail(r)
  \/ \E r \in ReqIds : UpdateGetCount(r)
  \/ \E r \in ReqIds : UpdateGetCountFail(r)
  \/ \E r \in ReqIds : UpdateSetCount(r)
  \/ \E r \in ReqIds : UpdateSetCountFail(r)

Next ==
  \/ \E q \in RequestsOf(env) : Receive(q, MaxReqs)
  \/ RedisStep

Spec == Init /\ [][Next]_vars

\* The same handler with fewer requests per behaviour.
NextFew ==
  \/ \E q \in RequestsOf(env) : Receive(q, MaxFew)
  \/ RedisStep

SpecFew == Init /\ [][NextFew]_vars

\* ------------------------------------------------- normalizer, run alone

PreChars == {"5", "4", "9", "1", "0", "+", " ", "x"}

RECURSIVE Strings(_)
Strings(n) ==
  IF n = 0 THEN {<<>>}
  ELSE Strings(n - 1) \cup { Append(s, c) : s \in Strings(n - 1), c \in PreChars }

\* "1234567890123..." cut to k digits
TailDigits(k) == [i \in 1 .. k |-> DigitChar(i % 10)]

Suffixes == {<<>>, <<")">>, <<"x">>, <<"\n">>, <<"U+2028">>}

\* The README's examples of normalization.
Examples ==
  { PhoneA, PhoneB,
    <<"+", "5", "4", " ", "9", " ", "1", "1", " ", "1", "2", "3", "4", " ",
      "5", "6", "7", "8">>,
    <<"1", "1", " ", "1", "2", "3", "4", " ", "5", "6", "7", "8">>,
    <<"1", "2", "3", "4", " ", "5", "6", "7", "8">>,
    <<"5", "9", "1", "1", "5", "7", "5", "4", "2", "8", "0", "2">>,
    <<"5", "4", "9", "1", "1", "1", "2", "3", "4", "5", "6", "7", "8">>,
    <<"+", "5", "4", "9", "1", "1", "1", "2", "3", "4", "5", "6", "7", "8">>,
    <<"(", "1", "1", ")", " ", "1", "2", "3", "4", "-", "5", "6", "7", "8">> }

NormInputs ==
  Examples \cup
  { p \o TailDigits(k) \o x : p \in Strings(MaxPre), k \in 0 .. MaxTail, x \in Suffixes }

InitNormalize ==
  /\ env = [REDIS_NAMESPACE |-> Null, PHONE_NUMBER |-> Null, ADMIN_PASSWORD |-> ""]
  /\ redis = FALSE
  /\ store = [k \in Keys |-> Null]
  /\ reqs = [r \in ReqIds |-> IdleReq]
  /\ arrived = 0
  /\ phoneInput \in NormInputs
  /\ normalized = Null
  /\ renormalized = Null
  /\ nsEnv = Null /\ nsHost = Null /\ nsResult = Null

\* normalizePhoneNumber(phoneInput)
Normalize ==
  /\ IsNull(normalized)
  /\ normalized' = Some(normalizePhoneNumber(phoneInput))
  /\ UNCHANGED <<handlerVars, phoneInput, renormalized, nsVars>>

\* normalizePhoneNumber applied to its own result
Renormalize ==
  /\ ~IsNull(normalized)
  /\ IsNull(renormalized)
  /\ renormalized' = Some(normalizePhoneNumber(Val(normalized)))
  /\ UNCHANGED <<handlerVars, phoneInput, normalized, nsVars>>

NextNormalize == Normalize \/ Renormalize

SpecNormalize == InitNormalize /\ [][NextNormalize]_vars

\* ----------------------------------------------- namespace resolver runs

NsChars == {" ", "\n", "U+00A0", "a"}

RECURSIVE NsStrings(_)
NsStrings(n) ==
  IF n = 0 THEN {<<>>}
  ELSE NsStrings(n - 1) \cup { Append(s, c) : s \in NsStrings(n - 1), c \in NsChars }

\* A setting or header: unset, or set to a string.
NsInputs == {Null} \cup { Some(s) : s \in NsStrings(MaxNsLen) }

InitNamespace ==
  /\ env = [REDIS_NAMESPACE |-> Null, PHONE_NUMBER |-> Null, ADMIN_PASSWORD |-> ""]
  /\ redis = FALSE
  /\ store = [k \in Keys |-> Null]
  /\ reqs = [r \in ReqIds |-> IdleReq]
  /\ arrived = 0
  /\ phoneInput = <<>>
  /\ normalized = Null
  /\ renormalized = Null
  /\ nsEnv \in NsInputs
  /\ nsHost \in NsInputs
  /\ nsResult = Null

\* getRedisNamespace(req)
Resolve ==
  /\ IsNull(nsResult)
  /\ nsResult' = Some(getRedisNamespace(nsEnv, nsHost))
  /\ UNCHANGED <<handlerVars, normVars, nsEnv, nsHost>>

NextNamespace == Resolve

SpecNamespace == InitNamespace /\ [][NextNamespace]_vars

\* ------------------------------------------------------------- properties

AllDigits(s) == \A i \in 1 .. Len(s) : s[i] \in Digits
HasDigit(s) == \E i \in 1 .. Len(s) : s[i] \in Digits
HasNonDigit(s) == \E i \in 1 .. Len(s) : s[i] \notin Digits

\* The request of handler invocation h, classified by what it asks for.
HasBody(h) == h.req.method = "POST" /\ ~IsNull(h.req.body)
Authorized(h) == HasBody(h) /\ Val(h.req.body).password = AdminPassword(env)
Unauthorized(h) == HasBody(h) /\ Val(h.req.body).password # AdminPassword(env)
IsReset(h) == Authorized(h) /\ Val(h.req.body).reset = "true"
IsUpdate(h) == Authorized(h) /\ Val(h.req.body).reset # "true"
IsValidUpdate(h) ==
  /\ IsUpdate(h)
  /\ Truthy(Val(h.req.body).phone)
  /\ Len(normalizePhoneNumber(Val(Val(h.req.body).phone))) = 13
IsRead(h) == h.req.method = "GET"

Status(h) == Val(h.res).status
Succeeded(h) == h.pc = "done" /\ Status(h) = 200 /\ Val(h.res).success

\* The successful writes of key in a log.
Wrote(h, key) ==
  \E i \in 1 .. Len(h.log) :
    h.log[i].op = "set" /\ h.log[i].ok /\ h.log[i].key = key
SomeCallFailed(h) == \E i \in 1 .. Len(h.log) : ~h.log[i].ok

\* C1: every input with at least one digit normalizes to exactly 13
\* characters, all digits, beginning with "549".
C1_NormalizedIs13Digits ==
  (~IsNull(normalized) /\ HasDigit(phoneInput)) =>
    /\ Len(Val(normalized)) = 13
    /\ AllDigits(Val(normalized))
    /\ StartsWith(Val(normalized), <<"5", "4", "9">>)

\* C1 witness: an input with noise, one digit only, has been normalized.
C1_Witness ==
  /\ ~IsNull(normalized)
  /\ HasNonDigit(phoneInput)
  /\ Len(Cleaned(phoneInput)) = 1
  /\ Len(Val(normalized)) = 13

\* C2: the value stored under <namespace>:phone_number is absent or a string
\* of exactly 13 digits.
C2_StoredPhoneIs13Digits ==
  \A ns \in Namespaces :
    LET v == store[PhoneKey(ns)] IN
    IsNull(v) \/ (Len(Val(v)) = 13 /\ AllDigits(Val(v)))

\* C2 witness: a phone number is stored, written from an input with noise.
C2_Witness ==
  \E r \in ReqIds :
    /\ Wrote(reqs[r], PhoneKey(NsOf(reqs[r].req)))
    /\ Val(reqs[r].req.body).phone = Some(PhoneA)
    /\ store[PhoneKey(NsOf(reqs[r].req))] = Some(normalizePhoneNumber(PhoneA))

\* C3: an Update that overlaps no request of its namespace and succeeds
\* leaves the stored counter exactly 1 above the counter it found on arrival
\* (absent counting as 0) and returns that new value.
C3_SequentialUpdateAddsOne ==
  [][\A r \in ReqIds :
       (reqs[r].pc = "SetCount" /\ Succeeded(reqs'[r]) /\ ~reqs'[r].overlapped) =>
         /\ StoredCount(store', NsOf(reqs[r].req)) = reqs[r].before + 1
         /\ Val(reqs'[r].res).changeCount =
              Some(StoredCount(store', NsOf(reqs[r].req)))]_vars

\* C3 witness: from the empty store two updates, one after the other, have
\* returned 1 and then 2, and 2 is stored.
C3_Witness ==
  /\ Succeeded(reqs[1]) /\ IsUpdate(reqs[1]) /\ ~reqs[1].overlapped
  /\ Succeeded(reqs[2]) /\ IsUpdate(reqs[2]) /\ ~reqs[2].overlapped
  /\ reqs[1].before = 0 /\ Val(reqs[1].res).changeCount = Some(1)
  /\ reqs[2].before = 1 /\ Val(reqs[2].res).changeCount = Some(2)
  /\ store[CountKey(NsOf(reqs[2].req))] = Some(<<"2">>)

\* A reset whose write went through: it has responded with success.
C4_ResetResponds ==
  \A r \in ReqIds :
    (IsReset(reqs[r]) /\ Wrote(reqs[r], CountKey(NsOf(reqs[r].req)))) =>
      /\ Succeeded(reqs[r])
      /\ Val(reqs[r].res).changeCount = Some(0)
      /\ Len(reqs[r].log) = 1
      /\ reqs[r].normalizedPhone = <<>>

\* The step in which a reset's write goes through changes the store in the
\* counter of its namespace only, which becomes "0".
C4_ResetStep ==
  \A r \in ReqIds :
    (IsReset(reqs[r]) /\ ~Wrote(reqs[r], CountKey(NsOf(reqs[r].req)))
       /\ Wrote(reqs'[r], CountKey(NsOf(reqs[r].req)))) =>
      /\ store' = [store EXCEPT ![CountKey(NsOf(reqs[r].req))] = Some(<<"0">>)]
      /\ StoredCount(store', NsOf(reqs[r].req)) = 0

\* C4: a successful Reset sets the counter of its namespace to 0 whatever it
\* was, returns changeCount 0 and leaves the phone number unchanged, also
\* when the body carries a phone, which is neither normalized nor stored.
C4_ResetZeroesCounterOnly == []C4_ResetResponds /\ [][C4_ResetStep]_vars

\* C4 witness: a reset whose body carries a phone has succeeded where the
\* counter was 1 and a phone number was stored; the phone is still stored.
C4_Witness ==
  \E r \in ReqIds :
    /\ IsReset(reqs[r]) /\ Succeeded(reqs[r])
    /\ Val(reqs[r].req.body).phone = Some(PhoneB)
    /\ reqs[r].log[1].old = Some(<<"1">>)
    /\ store[CountKey(NsOf(reqs[r].req))] = Some(<<"0">>)
    /\ store[PhoneKey(NsOf(reqs[r].req))] = Some(normalizePhoneNumber(PhoneA))

\* A POST with a wrong password has ended with the bad-credential error and
\* has made no redis call.
C5_Rejected ==
  \A r \in ReqIds :
    (reqs[r].pc # "idle" /\ Unauthorized(reqs[r])) =>
      /\ reqs[r].pc = "done"
      /\ Status(reqs[r]) = 401
      /\ Val(reqs[r].res).error = "BadCredential"
      /\ ~Val(reqs[r].res).success
      /\ reqs[r].log = <<>>

\* The step that handles a POST with a wrong password leaves the store as
\* it is.
C5_RejectedStep ==
  \A r \in ReqIds :
    (reqs[r].pc = "idle" /\ reqs'[r].pc # "idle" /\ Unauthorized(reqs'[r])) =>
      store' = store

\* C5: a POST whose password is not the administrator's ends with the
\* bad-credential error, makes no store read or write and changes no
\* namespace's phone number or counter, whatever its phone and reset fields.
C5_WrongPasswordChangesNothing == []C5_Rejected /\ [][C5_RejectedStep]_vars

\* C5 witness: a reset with a wrong password was refused while a counter
\* and a phone number were stored, and they still are.
C5_Witness ==
  \E r \in ReqIds :
    /\ reqs[r].pc = "done" /\ Unauthorized(reqs[r])
    /\ Val(reqs[r].req.body).reset = "true"
    /\ Status(reqs[r]) = 401
    /\ store[CountKey(NsOf(reqs[r].req))] = Some(<<"1">>)
    /\ ~IsNull(store[PhoneKey(NsOf(reqs[r].req))])


\* C6: the stored counter of a namespace never becomes strictly smaller
\* except by a Reset's write of 0.
C6_CounterOnlyDropsByReset ==
  [][\A ns \in Namespaces :
       StoredCount(store', ns) < StoredCount(store, ns) =>
         \E r \in ReqIds :
           /\ reqs[r].pc = "ResetSet" /\ Succeeded(reqs'[r])
           /\ NsOf(reqs[r].req) = ns
           /\ store'[CountKey(ns)] = Some(<<"0">>)]_vars

\* The counter value an update computed from the counter string it read.
Incremented(currentCount) ==
  IF IsNull(currentCount) THEN 1 ELSE ParseInt(Val(currentCount)) + 1

\* C7: the counter's read-then-write is not atomic.  An Update that succeeds
\* has stored, and returns, the counter it read plus 1, whatever the counter
\* was when it wrote; so two Updates of a namespace that read the same
\* counter both succeed with the same new value.
C7_UpdateWritesWhatItRead ==
  \A r \in ReqIds :
    (Succeeded(reqs[r]) /\ IsUpdate(reqs[r])) =>
      /\ Val(reqs[r].res).changeCount = Some(Incremented(reqs[r].currentCount))
      /\ reqs[r].log[3] =
           Call("set", CountKey(NsOf(reqs[r].req)), TRUE, reqs[r].log[3].old,
                Some(ToString(Incremented(reqs[r].currentCount))))
      /\ \A r2 \in ReqIds :
           (Succeeded(reqs[r2]) /\ IsUpdate(reqs[r2])
              /\ NsOf(reqs[r2].req) = NsOf(reqs[r].req)
              /\ reqs[r2].currentCount = reqs[r].currentCount) =>
             Val(reqs[r2].res).changeCount = Val(reqs[r].res).changeCount

\* C7 witness: from the empty store two updates of a namespace both read
\* an absent counter, both succeeded returning 1, the later one writing 1
\* over the other's 1, and 1 is stored: one increment is lost.
C7_Witness ==
  \E r1, r2 \in ReqIds :
    /\ r1 # r2
    /\ Succeeded(reqs[r1]) /\ IsUpdate(reqs[r1])
    /\ Succeeded(reqs[r2]) /\ IsUpdate(reqs[r2])
    /\ NsOf(reqs[r1].req) = NsOf(reqs[r2].req)
    /\ IsNull(reqs[r1].currentCount)
    /\ IsNull(reqs[r2].currentCount)
    /\ Val(reqs[r1].res).changeCount = Some(1)
    /\ Val(reqs[r2].res).changeCount = Some(1)
    /\ reqs[r2].log[3].old = Some(<<"1">>)
    /\ store[CountKey(NsOf(reqs[r1].req))] = Some(<<"1">>)

\* C8: an Update that has ended has made both its phone write and its
\* counter write, or neither.
C8_UpdateWritesBothOrNeither ==
  \A r \in ReqIds :
    (reqs[r].pc = "done" /\ IsUpdate(reqs[r])) =>
      (Wrote(reqs[r], PhoneKey(NsOf(reqs[r].req)))
         <=> Wrote(reqs[r], CountKey(NsOf(reqs[r].req))))

StoreFailures == {"ResetFailed", "SaveFailed", "RedisNotConfigured"}

\* The redis calls a reset, and an update, make when nothing fails.
CompleteLog(h) ==
  /\ \A i \in 1 .. Len(h.log) : h.log[i].ok
  /\ IF IsReset(h)
     THEN Len(h.log) = 1 /\ Wrote(h, CountKey(NsOf(h.req)))
     ELSE /\ Len(h.log) = 3
          /\ Wrote(h, PhoneKey(NsOf(h.req)))
          /\ Wrote(h, CountKey(NsOf(h.req)))

\* C9: an Update or Reset with the right secret and valid input answers with
\* the store-failure error when redis is not configured or one of its calls
\* fails, and answers success only after all its writes went through (it
\* has not answered while one is outstanding).
C9_StoreFailureIsReported ==
  \A r \in ReqIds :
    (reqs[r].pc # "idle" /\ (IsReset(reqs[r]) \/ IsValidUpdate(reqs[r]))) =>
      /\ (reqs[r].pc = "done" /\ (~redis \/ SomeCallFailed(reqs[r]))) =>
           /\ Status(reqs[r]) = 500
           /\ Val(reqs[r].res).error \in StoreFailures
           /\ ~Val(reqs[r].res).success
      /\ (reqs[r].pc # "done") => IsNull(reqs[r].res)
      /\ (reqs[r].pc = "done" /\ Status(reqs[r]) = 200) =>
           redis /\ CompleteLog(reqs[r])

\* C9 witness: an update whose counter write failed, after its phone write
\* and its counter read went through, has answered with the store failure.
C9_Witness ==
  \E r \in ReqIds :
    /\ reqs[r].pc = "done" /\ IsValidUpdate(reqs[r])
    /\ Len(reqs[r].log) = 3 /\ ~reqs[r].log[3].ok
    /\ Status(reqs[r]) = 500

\* C10: a Read answers 200 with the default phone and changeCount 0 whenever
\* redis is not configured or one of its two reads fails.
C10_FailedReadAnswersDefaults ==
  \A r \in ReqIds :
    (reqs[r].pc = "done" /\ IsRead(reqs[r])
       /\ (~redis \/ SomeCallFailed(reqs[r]))) =>
      /\ Status(reqs[r]) = 200
      /\ Val(reqs[r].res).phone = Some(DefaultPhone(env))
      /\ Val(reqs[r].res).changeCount = Some(0)



\* The digits of a phone that remain once it is cleaned and the country code
\* and the mobile prefix are removed.
LocalDigits(phone) == StripMobilePrefix(StripCountryCode(Cleaned(phone)))

\* An update whose phone has a digit, and fewer than 6 local digits.
IsShortUpdate(h) ==
  /\ IsUpdate(h)
  /\ Truthy(Val(h.req.body).phone)
  /\ HasDigit(Val(Val(h.req.body).phone))
  /\ Len(LocalDigits(Val(Val(h.req.body).phone))) < 6

\* C11: an Update with the right secret whose phone leaves fewer than 6
\* digits is rejected with the bad-input error and writes neither the phone
\* number nor the counter.
C11_ShortPhoneRejected ==
  \A r \in ReqIds :
    (reqs[r].pc # "idle" /\ IsShortUpdate(reqs[r])) =>
      /\ reqs[r].pc = "done"
      /\ Status(reqs[r]) = 400
      /\ ~Wrote(reqs[r], PhoneKey(NsOf(reqs[r].req)))
      /\ ~Wrote(reqs[r], CountKey(NsOf(reqs[r].req)))

\* An update whose phone is missing, empty or without a digit.
IsEmptyUpdate(h) ==
  /\ IsUpdate(h)
  /\ \/ ~Truthy(Val(h.req.body).phone)
     \/ ~HasDigit(Val(Val(h.req.body).phone))

\* Such an update has ended with a bad-input error without a redis call.
C12_Rejected ==
  \A r \in ReqIds :
    (reqs[r].pc # "idle" /\ IsEmptyUpdate(reqs[r])) =>
      /\ reqs[r].pc = "done"
      /\ Status(reqs[r]) = 400
      /\ Val(reqs[r].res).error \in {"PhoneRequired", "InvalidPhone"}
      /\ reqs[r].log = <<>>

\* The step that handles it leaves the store as it is.
C12_RejectedStep ==
  \A r \in ReqIds :
    (reqs[r].pc = "idle" /\ reqs'[r].pc # "idle" /\ IsEmptyUpdate(reqs'[r])) =>
      store' = store

\* C12: an Update with the right secret whose phone is missing or empty, or
\* has no digit (so that its normalization is not 13 digits long), ends with
\* the bad-input error before any store read or write; the phone number and
\* the counter stay as they are.
C12_EmptyPhoneRejectedBeforeStore == []C12_Rejected /\ [][C12_RejectedStep]_vars

\* C12 witness: an update whose phone has no digit was refused after an
\* update had stored a phone number and a counter of 1, which are still there.
C12_Witness ==
  \E r \in ReqIds :
    /\ reqs[r].pc = "done" /\ IsUpdate(reqs[r])
    /\ Val(reqs[r].req.body).phone = Some(<<"(", "x", ")">>)
    /\ Status(reqs[r]) = 400
    /\ Val(reqs[r].res).error = "InvalidPhone"
    /\ store[PhoneKey(NsOf(reqs[r].req))] = Some(normalizePhoneNumber(PhoneA))
    /\ store[CountKey(NsOf(reqs[r].req))] = Some(<<"1">>)


\* C13: normalizePhoneNumber is idempotent on every input that has a digit:
\* applied to its own result it returns that result.
C13_NormalizeIdempotent ==
  (~IsNull(renormalized) /\ HasDigit(phoneInput)) =>
    Val(renormalized) = Val(normalized)

\* C13 witness: "15 1234 5678" was normalized, and the result normalized again.
C13_Witness ==
  /\ phoneInput = PhoneB
  /\ ~IsNull(renormalized)
  /\ Val(normalized) = <<"5", "4", "9">> \o SelectSeq(PhoneB, IsDigit)

\* The documented examples, as pairs of input and canonical number.
DocumentedExamples ==
  { <<PhoneA,
      <<"5", "4", "9", "1", "1", "4", "3", "4", "4", "3", "6", "0", "0">>>>,
    <<<<"1", "1", " ", "1", "2", "3", "4", " ", "5", "6", "7", "8">>,
      <<"5", "4", "9", "1", "1", "1", "2", "3", "4", "5", "6", "7", "8">>>>,
    <<PhoneB,
      <<"5", "4", "9", "1", "5", "1", "2", "3", "4", "5", "6", "7", "8">>>>,
    <<<<"5", "9", "1", "1", "5", "7", "5", "4", "2", "8", "0", "2">>,
      <<"5", "4", "9", "1", "1", "5", "7", "5", "4", "2", "8", "0", "2">>>>,
    <<<<"(", "1", "1", ")", " ", "1", "2", "3", "4", "-", "5", "6", "7", "8">>,
      <<"5", "4", "9", "1", "1", "1", "2", "3", "4", "5", "6", "7", "8">>>>,
    <<<<"1", "2", "3", "4", " ", "5", "6", "7", "8">>,
      <<"5", "4", "9", "1", "1", "1", "2", "3", "4", "5", "6", "7", "8">>>>,
    <<<<"+", "5", "4", " ", "9", " ", "1", "1", " ", "1", "2", "3", "4", " ",
        "5", "6", "7", "8">>,
      <<"5", "4", "9", "1", "1", "1", "2", "3", "4", "5", "6", "7", "8">>>>,
    <<<<"+", "5", "4", "9", "1", "1", "1", "2", "3", "4", "5", "6", "7", "8">>,
      <<"5", "4", "9", "1", "1", "1", "2", "3", "4", "5", "6", "7", "8">>>> }

\* C14: each documented example normalizes to the canonical number the
\* documentation gives for it.
C14_DocumentedExamples ==
  \A ex \in DocumentedExamples :
    (phoneInput = ex[1] /\ ~IsNull(normalized)) => Val(normalized) = ex[2]

\* C14 witness: "591157542802", whose country code lacks the 4, was
\* normalized to "5491157542802".
C14_Witness ==
  /\ phoneInput = <<"5", "9", "1", "1", "5", "7", "5", "4", "2", "8", "0", "2">>
  /\ normalized =
       Some(<<"5", "4", "9", "1", "1", "5", "7", "5", "4", "2", "8", "0", "2">>)

\* A 2-digit area code followed by an 8-digit local number, nothing else.
IsAreaAndLocal(s) == Len(s) = 10 /\ AllDigits(s)

\* C15: for every 2-digit area code A and 8-digit local number L,
\* normalizePhoneNumber of A followed by L is "549" followed by A and L.
C15_AreaCodeRespected ==
  (IsAreaAndLocal(phoneInput) /\ ~IsNull(normalized)) =>
    Val(normalized) = <<"5", "4", "9">> \o phoneInput

\* C15 as the code has it: the same, for an area code whose first digit is
\* neither 5 (read as the start of the country code) nor 9 (read as the
\* mobile prefix).
C15_AreaCodeRespectedUnlessPrefix ==
  (/\ IsAreaAndLocal(phoneInput)
   /\ phoneInput[1] \notin {"5", "9"}
   /\ ~IsNull(normalized)) =>
    Val(normalized) = <<"5", "4", "9">> \o phoneInput

\* C15 witness: "1512345678" was normalized and kept its area code 15.
C15_Witness ==
  /\ phoneInput = <<"1", "5">> \o TailDigits(8)
  /\ normalized = Some(<<"5", "4", "9", "1", "5">> \o TailDigits(8))


\* A read that overlapped no request of its namespace and saw no call fail.
IsQuietRead(h) ==
  h.pc = "done" /\ IsRead(h) /\ ~h.overlapped /\ ~SomeCallFailed(h)

\* The phone and the counter a namespace holds, with the read's fallbacks.
PhoneHeld(st, ns) ==
  IF IsNull(st[PhoneKey(ns)]) THEN DefaultPhone(env) ELSE Val(st[PhoneKey(ns)])
CountHeld(st, ns) ==
  IF IsNull(st[CountKey(ns)]) THEN 0 ELSE DigitsValue(Val(st[CountKey(ns)]))

\* The step that ends such a read: the response carries what the store holds.
C16_ReadStep ==
  \A r \in ReqIds :
    (reqs[r].pc # "done" /\ IsQuietRead(reqs'[r])) =>
      /\ Status(reqs'[r]) = 200
      /\ Val(reqs'[r].res).phone = Some(PhoneHeld(store, NsOf(reqs'[r].req)))
      /\ Val(reqs'[r].res).changeCount =
           Some(CountHeld(store, NsOf(reqs'[r].req)))

\* Such a read, arrived right after a successful update of its namespace that
\* overlapped nothing, answers what the update answered.
C16_ReadAfterUpdate ==
  \A u, r \in ReqIds :
    (/\ r = u + 1
     /\ Succeeded(reqs[u]) /\ IsUpdate(reqs[u]) /\ ~reqs[u].overlapped
     /\ IsQuietRead(reqs[r])
     /\ NsOf(reqs[r].req) = NsOf(reqs[u].req)) =>
      /\ Val(reqs[r].res).phone = Val(reqs[u].res).normalizedPhone
      /\ Val(reqs[r].res).changeCount = Val(reqs[u].res).changeCount

\* C16: a Read that overlaps no other request and whose store calls succeed
\* returns the stored phone of its namespace, or the configured default when
\* none is stored, and the stored counter, or 0 when none is stored; a Read
\* that follows a successful Update returns that Update's normalizedPhone and
\* changeCount.
C16_ReadReturnsStored == []C16_ReadAfterUpdate /\ [][C16_ReadStep]_vars

\* C16 witness: an update stored "+54 11 4344 3600" with counter 1 and the
\* read that followed answered both.
C16_Witness ==
  /\ Succeeded(reqs[1]) /\ IsUpdate(reqs[1])
  /\ Val(reqs[1].res).changeCount = Some(1)
  /\ IsQuietRead(reqs[2])
  /\ NsOf(reqs[2].req) = NsOf(reqs[1].req)
  /\ Val(reqs[2].res).phone = Some(normalizePhoneNumber(PhoneA))
  /\ Val(reqs[2].res).changeCount = Some(1)


\* The two keys of the namespace that request h resolves to.
OwnKeys(h) ==
  LET ns == getRedisNamespace(env.REDIS_NAMESPACE, h.req.host)
  IN {ns \o PhoneSuffix, ns \o CountSuffix}

\* The values h got from the store under a key with the given suffix.
GotUnder(h, suffix) ==
  { h.log[i].new : i \in { j \in 1 .. Len(h.log) :
        /\ h.log[j].op = "get" /\ h.log[j].ok
        /\ h.log[j].key \in OwnKeys(h)
        /\ h.log[j].key = SubSeq(h.log[j].key, 1, Len(h.log[j].key) - Len(suffix))
                            \o suffix } }

\* Every redis call of a request is on a key of its own namespace.
C17_OwnKeysOnly ==
  \A r \in ReqIds :
    \A i \in 1 .. Len(reqs[r].log) : reqs[r].log[i].key \in OwnKeys(reqs[r])

\* What a response carries comes from the request itself, the environment or
\* a value read under a key of its own namespace.
C17_ResponseFromOwnKeys ==
  \A r \in ReqIds :
    (reqs[r].pc = "done" /\ Status(reqs[r]) = 200) =>
      /\ IsRead(reqs[r]) =>
           /\ Val(reqs[r].res).phone \in
                {Some(DefaultPhone(env))} \cup GotUnder(reqs[r], PhoneSuffix)
           /\ Val(reqs[r].res).changeCount \in
                {Some(0)} \cup
                { Some(ReadCount(v)) : v \in GotUnder(reqs[r], CountSuffix) }
      /\ IsUpdate(reqs[r]) =>
           /\ Val(reqs[r].res).normalizedPhone =
                Some(normalizePhoneNumber(Val(Val(reqs[r].req.body).phone)))
           /\ Val(reqs[r].res).changeCount \in
                { Some(NewCount(v)) : v \in GotUnder(reqs[r], CountSuffix) }
      /\ IsReset(reqs[r]) => Val(reqs[r].res).changeCount = Some(0)

\* A step of a request leaves every key outside its namespace as it is.
C17_OtherKeysUnchanged ==
  \A r \in ReqIds :
    (reqs'[r].log # reqs[r].log \/ reqs'[r].pc # reqs[r].pc) =>
      \A k \in Keys \ OwnKeys(reqs'[r]) : store'[k] = store[k]

\* C17: a Read, Update or Reset handled under namespace A reads and writes
\* only A:phone_number and A:change_count; the phone and the counter of any
\* other namespace are unchanged by it and do not appear in its response.
C17_NamespacesIsolated ==
  /\ []C17_OwnKeysOnly
  /\ []C17_ResponseFromOwnKeys
  /\ [][C17_OtherKeysUnchanged]_vars

\* C17 witness: an update stored a phone and counter 1 under one namespace,
\* and a read under another namespace answered the default phone and 0.
C17_Witness ==
  /\ Succeeded(reqs[1]) /\ IsUpdate(reqs[1])
  /\ OwnKeys(reqs[1]) \cap OwnKeys(reqs[2]) = {}
  /\ \A k \in OwnKeys(reqs[1]) : ~IsNull(store[k])
  /\ IsQuietRead(reqs[2]) /\ reqs[2].log # <<>>
  /\ Val(reqs[2].res).phone = Some(DefaultPhone(env))
  /\ Val(reqs[2].res).phone # Val(reqs[1].res).normalizedPhone
  /\ Val(reqs[2].res).changeCount = Some(0)


\* t is s without its leading and trailing whitespace.
IsTrimOf(t, s) ==
  /\ \E i \in 0 .. Len(s) :
       /\ i + Len(t) <= Len(s)
       /\ t = SubSeq(s, i + 1, i + Len(t))
       /\ \A j \in 1 .. i : s[j] \in Whitespace
       /\ \A j \in i + Len(t) + 1 .. Len(s) : s[j] \in Whitespace
  /\ t # <<>> => (t[1] \notin Whitespace /\ t[Len(t)] \notin Whitespace)

\* s has a character that is not whitespace.
HasText(s) == \E i \in 1 .. Len(s) : s[i] \notin Whitespace

\* The set or unset string of a setting or header.
TextOf(o) == IF o = <<>> THEN <<>> ELSE o[1]

\* C18: the resolved namespace is never empty: it is the trimmed explicit
\* setting when that is not empty, otherwise "host:" followed by the trimmed
\* host header when that is not empty, otherwise "default".
C18_NamespaceResolution ==
  nsResult # <<>> =>
    LET ns == nsResult[1] IN
    /\ ns # <<>>
    /\ IF HasText(TextOf(nsEnv)) THEN IsTrimOf(ns, TextOf(nsEnv))
       ELSE IF HasText(TextOf(nsHost))
            THEN /\ Len(ns) > 5
                 /\ SubSeq(ns, 1, 5) = <<"h", "o", "s", "t", ":">>
                 /\ IsTrimOf(SubSeq(ns, 6, Len(ns)), TextOf(nsHost))
            ELSE ns = <<"d", "e", "f", "a", "u", "l", "t">>

\* C18 witness: with the explicit setting all whitespace and the host header
\* " a ", the namespace resolved to "host:a".
C18_Witness ==
  /\ nsEnv = <<<<" ">>>>
  /\ nsHost = <<<<" ", "a", " ">>>>
  /\ nsResult = <<<<"h", "o", "s", "t", ":", "a">>>>


\* The updates of namespace ns that answered success once every reset of ns
\* that has succeeded so far had answered.
UpdatesSinceReset(ns) ==
  { u \in ReqIds : /\ Succeeded(reqs[u]) /\ IsUpdate(reqs[u])
                   /\ NsOf(reqs[u].req) = ns
                   /\ reqs[u].resetsBefore = ResetsReturned(ns) }

\* C19: with no request in flight, the stored counter of a namespace is at
\* most the number of Updates that returned success after the most recent
\* successful Reset returned, also when an Update overlaps a Reset.
C19_CounterBoundedByUpdatesSinceReset ==
  (\A r \in ReqIds : ~InFlight(r)) =>
    \A ns \in Namespaces :
      StoredCount(store, ns) <= Cardinality(UpdatesSinceReset(ns))

====
